---- MODULE Spec2Model ----
(***************************************************************************)
(* Model of backend/app/ai/evaluator/code_runner.py: the test harness      *)
(* run_code_tests, the per-language runners and the output-bounded         *)
(* process supervisor _run_with_output_limit (main thread, two drain       *)
(* threads and the child process).                                         *)
(*                                                                         *)
(* Sizes are counted in read chunks: one unit is one stream.read(4096).    *)
(* Time is the time elapsed since proc.wait was called, advanced from one  *)
(* instant of interest to the next (the case's effective timeout and the   *)
(* deadline of the wait).                                                  *)
(***************************************************************************)
EXTENDS Integers, Sequences, FiniteSets, TLC

\* ------------------------------------------------------------------ bounds
MaxCases == 2
\* max_output_bytes, in read chunks
MaxOutputUnits == 1
\* capacity of one OS pipe, in read chunks
PipeCap == 1
\* longest text given to the comparator on its own
MaxTextLen == 4
\* lines of a Java source
MaxLines == 2

\* ------------------------------------------------------- program constants
DefaultTimeoutMs == 2000
\* the timeouts a task accepts
MinTimeoutMs == 50
MaxTimeoutMs == 30000
MinWaitMs == 100
OutputLimitReturnCode == 137
LongCodeChars == 50000
LongCodeLines == 1000
\* Popen.returncode of a child ended by SIGKILL
KilledReturnCode == 0 - 9

Max(a, b) == IF a >= b THEN a ELSE b

\* ------------------------------------------------------------------ inputs
Languages == {"python", "javascript", "java", "ruby"}

\* a submission, by the text the quality checks look for and by the number of
\* chunks the program may write to each of its output streams
Program(text, writes) == [text |-> text, writes |-> writes]
CodeTexts == {"print('ok')", "import os\nprint('x')", "print(eval('2+2'))"}

CodeChars(c) ==
  IF c.text = "print('ok')" THEN 11 ELSE IF c.text = "import os\nprint('x')" THEN 20 ELSE 18
CodeLines(c) == IF c.text = "import os\nprint('x')" THEN 2 ELSE 1
CountUnsafeImport(c) == IF c.text = "import os\nprint('x')" THEN 1 ELSE 0
CountDynamicExec(c) == IF c.text = "print(eval('2+2'))" THEN 1 ELSE 0

\* a value read from a test-case dict with case.get
Absent == [kind |-> "absent", val |-> 0]
IntVal(n) == [kind |-> "int", val |-> n]
StrVal == [kind |-> "str", val |-> 0]

PointsInputs == {Absent, IntVal(0 - 1), IntVal(2), StrVal}
TimeoutInputs == {Absent, IntVal(0), IntVal(50)}

CaseInputs == [points : PointsInputs]

CaseLists == UNION {[1..n -> CaseInputs] : n \in 0..MaxCases}

\* what javac does with the submission
JavacBehaviours == {"ok", "fails", "hangs", "missing"}

\* the resource module in the child: setrlimit works, or each attempt to set
\* a limit may raise (ImportError where the module is missing, ValueError or
\* OSError where the limit is refused)
ResourceBehaviours == {"ok", "unreliable"}

Call(l, c, q, m, cs, j, r) ==
  [language |-> l, code |-> c, enable_quality_checks |-> q, security_mode |-> m,
   cases |-> cs, javac |-> j, resource |-> r]

JavacOf(l) == IF l = "java" THEN JavacBehaviours ELSE {"ok"}

\* The calls of the model, in three families.
\* One supervised run of a program that may write one chunk more than the
\* ceiling to each stream: with one case,
DrainCall ==
  Call("python", Program("print('ok')", MaxOutputUnits + 1), TRUE, "warn",
       <<[points |-> Absent]>>, "ok", "ok")
\* and with no case, whatever the resource module does:
SupervisorCalls ==
  {DrainCall} \cup
  {Call("python", Program("print('ok')", MaxOutputUnits + 1), TRUE, "warn", <<>>, "ok", r) :
     r \in ResourceBehaviours}
\* every list of cases, for a program that prints nothing (the JavaScript
\* runner differs from the Python one by the file it writes only):
HarnessCalls ==
  UNION {{Call(l, Program("print('ok')", 0), TRUE, "warn", cs, j, "ok") :
            cs \in CaseLists, j \in JavacOf(l)} : l \in Languages \ {"javascript"}}
\* every setting of the security gate, with no case or one case:
GateCalls ==
  {Call(l, Program(t, 0), q, m, cs, "ok", "ok") :
     l \in Languages, t \in CodeTexts, q \in BOOLEAN, m \in {"warn", "block"},
     cs \in {<<>>, <<[points |-> Absent]>>}}

Calls == SupervisorCalls \cup HarnessCalls \cup GateCalls

\* --------------------------------------------------------------- variables
VARIABLES
  \* arguments of run_code_tests
  language, code, enable_quality_checks, security_mode, cases,
  \* environment
  javac, resource,
  \* locals of run_code_tests
  pc, warnings, i, passed, failed, errors, test_results,
  total_points, earned_points, timeout_used, tmp, report, raised, outcome,
  \* the last call of _compare_output: its arguments and its result
  actual, expected, comparison_mode, verdict,
  \* processes started by the evaluation
  javac_runs, popen_calls,
  \* what the runners prepared: the number of times the submission was
  \* written to the scratch directory, and the locals of the last runner call
  prepared, class_name, java_file, cmd,
  \* one _run_with_output_limit call
  proc, returncode, pipeOut, pipeErr, outWritten, errWritten,
  \* inside the child: the streams it closed, the stage of the Python wrapper
  outClosed, errClosed, wrapper, limit_as, limit_cpu, cpu_seconds,
  stdout_size, stderr_size, stdout_chunks, stderr_chunks, exceeded,
  t_out, t_err, stdin_open, stdin_drained, stdin_failed, kill_called, now,
  alive_at_timeout, wait_expired

args == <<language, code, enable_quality_checks, security_mode, cases, javac, resource>>
comparison == <<actual, expected, comparison_mode, verdict>>
locals == <<pc, warnings, i, passed, failed, errors, test_results,
            total_points, earned_points, timeout_used, tmp, report, raised, outcome,
            comparison>>
prep == <<prepared, class_name, java_file, cmd>>
counts == <<javac_runs, popen_calls, prep>>
inside == <<outClosed, errClosed, wrapper, limit_as, limit_cpu, cpu_seconds>>
child == <<proc, returncode, pipeOut, pipeErr, outWritten, errWritten, inside>>
drain == <<stdout_size, stderr_size, stdout_chunks, stderr_chunks, exceeded, t_out, t_err>>
super == <<stdin_open, stdin_drained, stdin_failed, kill_called, now, alive_at_timeout, wait_expired>>
vars == <<args, locals, counts, child, drain, super>>

NoReport == [none |-> TRUE]
NoOutcome == [kind |-> "none"]
\* a command line: the executable, its options, the file or class it runs
Cmd(exe, options, target) == [exe |-> exe, options |-> options, target |-> target]
NoCmd == Cmd("none", <<>>, <<>>)

\* ------------------------------------------------------- quality heuristics
UnsafeWarning == "Warning: Potentially unsafe imports detected"
DynamicWarning == "Warning: Dynamic code execution detected"
LongWarning == "Code is very long (>50K chars)"
LinesWarning == "Code has many lines (consider breaking into functions)"

CheckCodeQuality(c, lang) ==
  IF lang = "python"
  THEN (IF CodeChars(c) > LongCodeChars THEN <<LongWarning>> ELSE <<>>)
       \o (IF CountUnsafeImport(c) > 0 THEN <<UnsafeWarning>> ELSE <<>>)
       \o (IF CountDynamicExec(c) > 0 THEN <<DynamicWarning>> ELSE <<>>)
       \o (IF CodeLines(c) > LongCodeLines THEN <<LinesWarning>> ELSE <<>>)
  ELSE <<>>

\* the gate looking for "dynamic" only
FlaggedDynamicOnly(w) == w \in {DynamicWarning}

\* "unsafe" in w.lower() or "dynamic" in w.lower()
Flagged(w) == w \in {UnsafeWarning, DynamicWarning}

Report(p, f, tp, ep, errs, warns, results) ==
  [passed |-> p, failed |-> f, total_points |-> tp, earned_points |-> ep,
   errors |-> errs, warnings |-> warns, test_results |-> results]

Err(k, text) == [case |-> k, text |-> text]

\* -------------------------------------------------------------------- Init
NoVerdict == [matches |-> FALSE, message |-> "not comparison"]

Arguments(c) ==
  /\ language = c.language
  /\ code = c.code
  /\ enable_quality_checks = c.enable_quality_checks
  /\ security_mode = c.security_mode
  /\ cases = c.cases
  /\ javac = c.javac
  /\ resource = c.resource

\* nothing has been comparison yet
NothingCompared ==
  /\ actual = <<>>
  /\ expected = <<>>
  /\ comparison_mode = "exact"
  /\ verdict = NoVerdict

\* nothing was prepared and no process was started
NoProcess ==
  /\ javac_runs = 0
  /\ popen_calls = 0
  /\ prepared = 0
  /\ class_name = <<>>
  /\ java_file = <<>>
  /\ cmd = NoCmd
  /\ proc = "none"
  /\ returncode = 0
  /\ pipeOut = 0
  /\ pipeErr = 0
  /\ outWritten = 0
  /\ errWritten = 0
  /\ outClosed = FALSE
  /\ errClosed = FALSE
  /\ wrapper = "none"
  /\ limit_as = "unset"
  /\ limit_cpu = "unset"
  /\ cpu_seconds = 0
  /\ stdout_size = 0
  /\ stderr_size = 0
  /\ stdout_chunks = 0
  /\ stderr_chunks = 0
  /\ exceeded = FALSE
  /\ t_out = "idle"
  /\ t_err = "idle"
  /\ stdin_open = FALSE
  /\ stdin_drained = FALSE
  /\ stdin_failed = FALSE
  /\ kill_called = FALSE
  /\ now = 0
  /\ alive_at_timeout = FALSE
  /\ wait_expired = FALSE

\* the locals of run_code_tests at lines 342-348, no process started
Fresh ==
  /\ warnings = <<>>
  /\ i = 0
  /\ passed = 0
  /\ failed = 0
  /\ errors = <<>>
  /\ test_results = <<>>
  /\ total_points = 0
  /\ earned_points = 0
  /\ timeout_used = DefaultTimeoutMs
  /\ tmp = "none"
  /\ report = NoReport
  /\ raised = "none"
  /\ outcome = NoOutcome
  /\ NoProcess

Init ==
  /\ \E c \in Calls : Arguments(c)
  /\ pc = "start"
  /\ Fresh
  /\ NothingCompared

\* -------------------------------------------------------------- comparator
\* texts are sequences of characters
IsSpace(c) == c \in {" ", "\n"}

RECURSIVE LStrip(_)
LStrip(s) == IF s = <<>> THEN s ELSE IF IsSpace(Head(s)) THEN LStrip(Tail(s)) ELSE s

RECURSIVE RStrip(_)
RStrip(s) ==
  IF s = <<>> THEN s
  ELSE IF IsSpace(s[Len(s)]) THEN RStrip(SubSeq(s, 1, Len(s) - 1)) ELSE s

\* str.strip()
Strip(s) == RStrip(LStrip(s))

\* " ".join(text.split()) of a stripped text
RECURSIVE JoinSplit(_)
JoinSplit(s) ==
  IF s = <<>> THEN s
  ELSE IF IsSpace(Head(s)) THEN <<" ">> \o JoinSplit(LStrip(s))
  ELSE <<Head(s)>> \o JoinSplit(Tail(s))

\* one whitespace character removed from the front instead of all of them
NormalizeOutputStripOne(text, normalize_whitespace) ==
  LET t == IF text # <<>> /\ IsSpace(Head(text)) THEN Tail(text) ELSE text
  IN IF normalize_whitespace THEN JoinSplit(RStrip(t)) ELSE RStrip(t)

\* lines 33-38
NormalizeOutput(text, normalize_whitespace) ==
  IF normalize_whitespace THEN JoinSplit(Strip(text)) ELSE Strip(text)

\* the patterns of the model: literal characters, "." (any character but a
\* newline), "*" (the atom before it, zero or more times) and "(", which is
\* never closed. re.fullmatch raises re.error for an unclosed "(" and for a
\* "*" that has nothing to repeat or follows another "*".
ValidPattern(p) ==
  /\ \A k \in 1..Len(p) : p[k] # "("
  /\ \A k \in 1..Len(p) : p[k] = "*" => (k > 1 /\ p[k - 1] # "*")

AtomMatches(a, c) == IF a = "." THEN c # "\n" ELSE a = c

\* re.fullmatch(p, s) is not None, for a valid pattern
RECURSIVE FullMatch(_, _)
FullMatch(p, s) ==
  IF p = <<>> THEN s = <<>>
  ELSE IF Len(p) >= 2 /\ p[2] = "*"
       THEN \/ FullMatch(SubSeq(p, 3, Len(p)), s)
            \/ (s # <<>> /\ AtomMatches(p[1], s[1]) /\ FullMatch(p, Tail(s)))
       ELSE s # <<>> /\ AtomMatches(p[1], s[1]) /\ FullMatch(Tail(p), Tail(s))

\* e in a, a itself excepted
ContainsProper(a, e) ==
  \E k \in 1..(Len(a) - Len(e)) : SubSeq(a, k + 1, k + Len(e)) = e

\* e in a
Contains(a, e) ==
  \E k \in 0..(Len(a) - Len(e)) : SubSeq(a, k + 1, k + Len(e)) = e

\* a repetition count that reaches MAXREPEAT, after an atom it can repeat
TooLarge(p) ==
  \E k \in 2..Len(p) : p[k] = "{4294967296}" /\ p[k - 1] \notin {"*", "(", "{4294967296}"}

\* the exception that leaves _compare_output, "none" when it returns: line 63
\* catches re.error only, and re.fullmatch raises OverflowError for a
\* repetition count that is too large
CompareRaises(e, mode) == IF mode = "regex" /\ TooLarge(e) THEN "OverflowError" ELSE "none"

NoneMsg == "None"
Verdict(m, msg) == [matches |-> m, message |-> msg]

\* lines 41-72: _compare_output(actual, expected, comparison_mode)
CompareOutput(a, e, mode) ==
  CASE mode = "exact" ->
         IF a = e THEN Verdict(TRUE, NoneMsg)
         ELSE Verdict(FALSE, "Expected ..., got ...")
    [] mode = "normalized" ->
         IF NormalizeOutput(a, TRUE) = NormalizeOutput(e, TRUE)
         THEN Verdict(TRUE, NoneMsg)
         ELSE Verdict(FALSE, "Expected ..., got ...")
    [] mode = "regex" ->
         IF ~ValidPattern(e) THEN Verdict(FALSE, "Invalid regex pattern")
         ELSE IF FullMatch(e, a) THEN Verdict(TRUE, NoneMsg)
         ELSE Verdict(FALSE, "Output doesn't match pattern")
    [] mode = "contains" ->
         IF Contains(a, e) THEN Verdict(TRUE, NoneMsg)
         ELSE Verdict(FALSE, "Expected output to contain ...")
    [] OTHER -> Verdict(FALSE, "Unknown comparison mode")

\* what a program that prints something prints, what a case expects, how a
\* case compares
StdoutTexts == {<<"\n">>, <<"a">>, <<"a", " ", " ", "b", "\n">>}
ExpectedTexts ==
  {<<>>, <<"a">>, <<"a", " ", "b">>, <<"a", " ", " ", "b", "\n">>, <<"(">>,
   <<"a", "{4294967296}">>}
ComparisonModes == {"exact", "normalized", "regex", "contains", "fuzzy"}

\* ------------------------------------------- the comparator on its own
\* every text of at most n characters
Alphabet == {"a", " ", "\n", ".", "*", "("}
Texts(n) == UNION {[1..k -> Alphabet] : k \in 0..n}

\* a call of _compare_output: every text as actual, and as expected the same
\* text, its normalized form or one of the expected texts of the cases
ComparatorInit ==
  /\ Arguments(Call("python", Program("print('ok')", 0), TRUE, "warn", <<>>, "ok", "ok"))
  /\ pc = "compare"
  /\ Fresh
  /\ \E x \in Texts(MaxTextLen) :
        /\ actual = x
        /\ expected \in {x, NormalizeOutput(x, TRUE)} \cup ExpectedTexts
  /\ comparison_mode \in ComparisonModes
  /\ verdict = NoVerdict

ComparatorFrame ==
  UNCHANGED <<warnings, i, passed, failed, errors, test_results, total_points,
              earned_points, timeout_used, tmp, report, outcome,
              args, counts, child, drain, super>>

\* lines 52-53: both texts are replaced by their normalized forms
NormalizeCall ==
  /\ pc = "compare"
  /\ \E normalize_whitespace \in BOOLEAN :
        /\ actual' = NormalizeOutput(actual, normalize_whitespace)
        /\ expected' = NormalizeOutput(expected, normalize_whitespace)
  /\ <<actual', expected'>> # <<actual, expected>>
  /\ UNCHANGED <<pc, comparison_mode, verdict, raised>>
  /\ ComparatorFrame

\* lines 41-72
CompareCall ==
  /\ pc = "compare"
  /\ IF CompareRaises(expected, comparison_mode) # "none"
     THEN /\ raised' = CompareRaises(expected, comparison_mode)
          /\ pc' = "raised"
          /\ UNCHANGED verdict
     ELSE /\ verdict' = CompareOutput(actual, expected, comparison_mode)
          /\ pc' = "compared"
          /\ UNCHANGED raised
  /\ UNCHANGED <<actual, expected, comparison_mode>>
  /\ ComparatorFrame

ComparatorNext ==
  \/ NormalizeCall
  \/ CompareCall

ComparatorSpec == ComparatorInit /\ [][ComparatorNext]_vars

\* ------------------------------------------------- run_code_tests: the gate
\* a scratch directory removed on return only
ExitScratchOnReturnOnly(how) == IF how = "raise" THEN "exists" ELSE "deleted"

\* line 350: leaving the with block of tempfile.TemporaryDirectory, by a
\* return or by an exception, removes the directory and what it holds
ExitScratch(how) == "deleted"


\* lines 327-356: quality checks, the security gate, the scratch directory
Gate ==
  /\ pc = "start"
  /\ LET w == IF enable_quality_checks THEN CheckCodeQuality(code, language) ELSE <<>>
         blocked == security_mode = "block" /\ \E k \in 1..Len(w) : Flagged(w[k])
     IN /\ warnings' = w
        /\ IF blocked
           THEN /\ report' = Report(0, 0, 0, 0, <<Err(0, "Blocked by security policy")>>, w, <<>>)
                /\ pc' = "returned"
                /\ tmp' = tmp
           ELSE /\ report' = report
                /\ pc' = IF cases = <<>> THEN "launch" ELSE "loop"
                /\ tmp' = "exists"
  /\ UNCHANGED <<i, passed, failed, errors, test_results, total_points,
                 earned_points, timeout_used, raised, outcome, comparison>>
  /\ UNCHANGED <<args, counts, child, drain, super>>

\* -------------------------------------------- run_code_tests: the case loop
\* case.get("points", 0)
PointsOfDefaultZero(case) == IF case.points.kind = "absent" THEN 0 ELSE case.points.val

\* case.get("points", 1), line 444
PointsOf(case) == IF case.points.kind = "absent" THEN 1 ELSE case.points.val

\* lines 449-452
TimeoutUsed(t) == IF t.kind = "int" /\ t.val > 0 THEN t.val ELSE DefaultTimeoutMs

\* max(0.1, timeout_ms / 1000.0), in milliseconds (line 265)
WaitMs(t) == Max(MinWaitMs, t)

\* cpu_seconds = max(1, timeout_ms // 1000), line 102 of the wrapper
CpuSeconds(t) == Max(1, t \div 1000)

\* a CompletedProcess: the return code, the chunks of stdout and their text,
\* the text of stderr and its chunks
Completed(rc, out, printed, err, errchunks) ==
  [kind |-> "completed", text |-> err, returncode |-> rc, stdout |-> out,
   printed |-> printed, stderr |-> errchunks]
\* TimeoutExpired caught by the handler of Exception
TimedOutAsRaised(src) ==
  [kind |-> "exception", text |-> src, returncode |-> 0, stdout |-> 0,
   printed |-> <<>>, stderr |-> 0]
TimedOut(src) ==
  [kind |-> "timeout", text |-> src, returncode |-> 0, stdout |-> 0,
   printed |-> <<>>, stderr |-> 0]
Raised(msg) ==
  [kind |-> "exception", text |-> msg, returncode |-> 0, stdout |-> 0,
   printed |-> <<>>, stderr |-> 0]

ResetRun ==
  /\ proc' = "none"
  /\ returncode' = 0
  /\ pipeOut' = 0
  /\ pipeErr' = 0
  /\ outWritten' = 0
  /\ errWritten' = 0
  /\ outClosed' = FALSE
  /\ errClosed' = FALSE
  /\ wrapper' = "none"
  /\ limit_as' = "unset"
  /\ limit_cpu' = "unset"
  /\ cpu_seconds' = 0
  /\ stdout_size' = 0
  /\ stderr_size' = 0
  /\ stdout_chunks' = 0
  /\ stderr_chunks' = 0
  /\ exceeded' = FALSE
  /\ t_out' = "idle"
  /\ t_err' = "idle"
  /\ stdin_open' = FALSE
  /\ stdin_drained' = FALSE
  /\ stdin_failed' = FALSE
  /\ kill_called' = FALSE
  /\ now' = 0
  /\ alive_at_timeout' = FALSE
  /\ wait_expired' = FALSE

\* lines 440-445 overwrite the locals of the previous iteration
ForgetCompared ==
  /\ actual' = <<>>
  /\ expected' = <<>>
  /\ comparison_mode' = "exact"
  /\ verdict' = NoVerdict

\* lines 439-458: read the case, add its points, resolve its timeout.
\* The other fields of the case (timeout_ms, input, expected_output,
\* comparison_mode) are read only here and below, and are drawn where read.
CaseBegin ==
  /\ pc = "loop"
  /\ i < Len(cases)
  /\ i' = i + 1
  /\ outcome' = NoOutcome
  /\ ResetRun
  /\ ForgetCompared
  /\ IF cases[i + 1].points.kind = "str"
     THEN \* total_points += points raises TypeError outside every try
          /\ raised' = "TypeError"
          /\ pc' = "raised"
          /\ tmp' = ExitScratch("raise")
          /\ UNCHANGED <<total_points, timeout_used>>
     ELSE /\ total_points' = total_points + PointsOf(cases[i + 1])
          /\ \E t \in TimeoutInputs : timeout_used' = TimeoutUsed(t)
          /\ pc' = "launch"
          /\ UNCHANGED <<raised, tmp>>
  /\ UNCHANGED <<warnings, passed, failed, errors, test_results, earned_points, report>>
  /\ UNCHANGED <<args, counts>>

\* lines 535-543
Return ==
  /\ pc = "loop"
  /\ i = Len(cases)
  /\ report' = Report(passed, failed, total_points, earned_points, errors, warnings, test_results)
  /\ tmp' = ExitScratch("return")
  /\ pc' = "returned"
  /\ UNCHANGED <<warnings, i, passed, failed, errors, test_results, total_points,
                 earned_points, timeout_used, raised, outcome, comparison>>
  /\ UNCHANGED <<args, counts, child, drain, super>>

\* ------------------------------------------------- the name of the Java class
\* A Java source is a sequence of lexemes: words (keywords and identifiers,
\* made of the characters of \w), white space, and the other characters.
NotWords == {" ", "\n", "//", "$", "{", "}"}
IsWord(x) == x \notin NotWords

\* a Java submission, by its lexemes
JavaProgram(lexemes) == [text |-> "java", writes |-> 0, source |-> lexemes]
\* the lexemes of a submission; a text of CodeTexts is one lexeme
Lexemes(c) == IF "source" \in DOMAIN c THEN c.source ELSE <<c.text>>

\* \s+ from position k: the position of the first lexeme that is not white space
RECURSIVE SkipSpace(_, _)
SkipSpace(s, k) == IF k <= Len(s) /\ IsSpace(s[k]) THEN SkipSpace(s, k + 1) ELSE k

\* (\w+) from position k: the longest run of words
RECURSIVE WordRun(_, _)
WordRun(s, k) == IF k <= Len(s) /\ IsWord(s[k]) THEN <<s[k]>> \o WordRun(s, k + 1) ELSE <<>>

\* group 1 of public\s+class\s+(\w+) matched at position p, <<>> if it does
\* not match there
MatchAt(s, p) ==
  IF s[p] # "public" THEN <<>>
  ELSE LET c == SkipSpace(s, p + 1)
       IN IF c = p + 1 \/ c > Len(s) \/ s[c] # "class" THEN <<>>
          ELSE LET n == SkipSpace(s, c + 1)
               IN IF n = c + 1 THEN <<>> ELSE WordRun(s, n)

\* re.search: the leftmost match at or after position p
RECURSIVE Search(_, _)
Search(s, p) ==
  IF p > Len(s) THEN <<>>
  ELSE IF MatchAt(s, p) # <<>> THEN MatchAt(s, p) ELSE Search(s, p + 1)

\* the class is always Main
ClassNameMain(s) == <<"Main">>

\* lines 160-163
ClassName(s) == IF Search(s, 1) = <<>> THEN <<"Main">> ELSE Search(s, 1)

\* line 165: f"{class_name}.java"
JavaFile(name) == name \o <<".java">>

\* the lines of the Java sources of the model
JavaLines ==
  {<<"public", " ", "class", " ", "Foo">>,
   <<"public", " ", "class", " ", "Bar">>,
   <<"//", " ", "public", " ", "class", " ", "Foo">>,
   <<"public", " ", "final", " ", "class", " ", "Foo">>,
   <<"class", " ", "Foo">>,
   <<"public", " ", "class", " ", "Foo", "$", "Bar">>,
   <<"public", "\n", "class", " ", " ", "Main">>}

RECURSIVE JoinLines(_)
JoinLines(ls) ==
  IF ls = <<>> THEN <<>>
  ELSE IF Len(ls) = 1 THEN ls[1] ELSE ls[1] \o <<"\n">> \o JoinLines(Tail(ls))

\* every source of at most MaxLines lines
JavaSources == {JoinLines(ls) : ls \in UNION {[1..n -> JavaLines] : n \in 0..MaxLines}}

\* ------------------------------------------------------------- the runners
\* only the drain thread of stdout is started
PopenOkStdoutOnly ==
  /\ popen_calls' = popen_calls + 1
  /\ proc' = "alive"
  /\ t_out' = "running"
  /\ t_err' = "idle"
  /\ stdin_open' = TRUE
  /\ wrapper' = IF language = "python" THEN "limit_as" ELSE "exec"
  /\ pc' = "stdin"
  /\ UNCHANGED outcome
  /\ UNCHANGED <<returncode, pipeOut, pipeErr, outWritten, errWritten>>
  /\ UNCHANGED <<outClosed, errClosed, limit_as, limit_cpu, cpu_seconds>>
  /\ UNCHANGED <<stdout_size, stderr_size, stdout_chunks, stderr_chunks, exceeded>>
  /\ UNCHANGED <<stdin_drained, stdin_failed, kill_called, now, alive_at_timeout, wait_expired>>

\* subprocess.Popen succeeded and both drain threads were started (201-250)
PopenOk ==
  /\ popen_calls' = popen_calls + 1
  /\ proc' = "alive"
  /\ t_out' = "running"
  /\ t_err' = "running"
  /\ stdin_open' = TRUE
  /\ wrapper' = IF language = "python" THEN "limit_as" ELSE "exec"
  /\ pc' = "stdin"
  /\ UNCHANGED outcome
  /\ UNCHANGED <<returncode, pipeOut, pipeErr, outWritten, errWritten>>
  /\ UNCHANGED <<outClosed, errClosed, limit_as, limit_cpu, cpu_seconds>>
  /\ UNCHANGED <<stdout_size, stderr_size, stdout_chunks, stderr_chunks, exceeded>>
  /\ UNCHANGED <<stdin_drained, stdin_failed, kill_called, now, alive_at_timeout, wait_expired>>

\* the runner raised before a child existed
LaunchRaises(o) ==
  /\ outcome' = o
  /\ pc' = "classify"
  /\ UNCHANGED <<popen_calls, child, drain, super>>

HarnessFrame ==
  UNCHANGED <<warnings, i, passed, failed, errors, test_results, total_points,
              earned_points, timeout_used, tmp, report, raised, comparison>>

\* lines 75-123: write main.py and _wrapper.py, launch sys.executable
RunPythonCode ==
  /\ pc = "launch"
  /\ language = "python"
  /\ prepared' = prepared + 1
  /\ cmd' = Cmd("python", <<"-I", "-u">>, <<"_wrapper.py">>)
  /\ \/ PopenOk
     \/ LaunchRaises(Raised("OSError"))
  /\ HarnessFrame
  /\ UNCHANGED <<args, javac_runs, class_name, java_file>>

\* lines 126-148: write main.js, launch node
RunJavascriptCode ==
  /\ pc = "launch"
  /\ language = "javascript"
  /\ prepared' = prepared + 1
  /\ cmd' = Cmd("node", <<>>, <<"main.js">>)
  /\ \/ PopenOk
     \/ LaunchRaises(Raised("FileNotFoundError"))
  /\ HarnessFrame
  /\ UNCHANGED <<args, javac_runs, class_name, java_file>>

\* lines 151-190: write <Class>.java, run javac, launch java
RunJavaCode ==
  /\ pc = "launch"
  /\ language = "java"
  /\ class_name' = ClassName(Lexemes(code))
  /\ java_file' = JavaFile(ClassName(Lexemes(code)))
  /\ prepared' = prepared + 1
  /\ CASE javac = "missing" ->
            /\ LaunchRaises(Raised("FileNotFoundError"))
            /\ UNCHANGED <<javac_runs, cmd>>
       [] javac = "hangs" ->
            /\ LaunchRaises(TimedOut("javac"))
            /\ javac_runs' = javac_runs + 1
            /\ UNCHANGED cmd
       [] javac = "fails" ->
            /\ LaunchRaises(Raised("Compilation failed"))
            /\ javac_runs' = javac_runs + 1
            /\ UNCHANGED cmd
       [] OTHER ->
            /\ cmd' = Cmd("java", <<"-cp", "scratch">>, ClassName(Lexemes(code)))
            /\ \/ PopenOk
               \/ LaunchRaises(Raised("FileNotFoundError"))
            /\ javac_runs' = javac_runs + 1
  /\ HarnessFrame
  /\ UNCHANGED args

\* lines 385-394 (no test case) and 486-487 (in the loop)
UnsupportedLanguage ==
  /\ pc = "launch"
  /\ language \notin {"python", "javascript", "java"}
  /\ IF cases = <<>>
     THEN /\ report' = Report(0, 0, 0, 0, <<Err(0, "Language not supported")>>, warnings, <<>>)
          /\ tmp' = ExitScratch("return")
          /\ pc' = "returned"
          /\ UNCHANGED outcome
     ELSE /\ outcome' = Raised("Unsupported language")
          /\ pc' = "classify"
          /\ UNCHANGED <<report, tmp>>
  /\ UNCHANGED <<warnings, i, passed, failed, errors, test_results, total_points,
                 earned_points, timeout_used, raised, comparison>>
  /\ UNCHANGED <<args, counts, child, drain, super>>

\* ------------------------------------------------------------ the child
\* A chunk that is in a pipe is a chunk the drain thread has not delivered
\* yet: the thread has not run, or its read(4096) is still filling the chunk.
InRun == pc \in {"stdin", "stdin_blocked", "wait", "expired", "join_out", "join_err", "build"}

Kill(p) == IF p = "alive" THEN "killed" ELSE p
\* a kill that overwrites the return code of a child that has ended
KillCodeAlways(p, rc) == KilledReturnCode
\* the return code after proc.kill(): SIGKILL ends a child that is running,
\* a kill of a child that has ended is swallowed (lines 229-232, 267-270)
KillCode(p, rc) == IF p = "alive" THEN KilledReturnCode ELSE rc

\* the outcomes of one attempt to set a limit
LimitResults(env) == IF env = "ok" THEN {"set"} ELSE {"set", "failed"}

\* an attempt that raises ends the wrapper
FatalOnFailure(result) == result = "failed"

\* lines 96-97 and 104-105: except Exception: pass
Fatal(result) == FALSE

\* lines 92-97 of the wrapper: resource.setrlimit(RLIMIT_AS, ...)
WrapperLimitAs ==
  /\ proc = "alive"
  /\ wrapper = "limit_as"
  /\ \E r \in LimitResults(resource) :
        /\ limit_as' = r
        /\ IF Fatal(r)
           THEN /\ proc' = "exited"
                /\ returncode' = 1
                /\ UNCHANGED wrapper
           ELSE /\ wrapper' = "limit_cpu"
                /\ UNCHANGED <<proc, returncode>>
  /\ UNCHANGED <<pipeOut, pipeErr, outWritten, errWritten, outClosed, errClosed, limit_cpu, cpu_seconds>>
  /\ UNCHANGED <<args, locals, counts, drain, super>>

\* lines 100-105 of the wrapper: resource.setrlimit(RLIMIT_CPU, ...); the
\* next statement of the wrapper executes the submission (lines 108-109)
WrapperLimitCpu ==
  /\ proc = "alive"
  /\ wrapper = "limit_cpu"
  /\ \E r \in LimitResults(resource) :
        /\ limit_cpu' = r
        /\ cpu_seconds' = IF r = "set" THEN CpuSeconds(timeout_used) ELSE cpu_seconds
        /\ IF Fatal(r)
           THEN /\ proc' = "exited"
                /\ returncode' = 1
                /\ UNCHANGED wrapper
           ELSE /\ wrapper' = "exec"
                /\ UNCHANGED <<proc, returncode>>
  /\ UNCHANGED <<pipeOut, pipeErr, outWritten, errWritten, outClosed, errClosed, limit_as>>
  /\ UNCHANGED <<args, locals, counts, drain, super>>

\* the submission is executing
Executing == proc = "alive" /\ wrapper = "exec"

ChildWriteOut ==
  /\ Executing
  /\ ~outClosed
  /\ outWritten < code.writes
  /\ pipeOut < PipeCap
  /\ outWritten' = outWritten + 1
  /\ pipeOut' = pipeOut + 1
  /\ UNCHANGED <<proc, returncode, pipeErr, errWritten, inside>>
  /\ UNCHANGED <<args, locals, counts, drain, super>>

ChildWriteErr ==
  /\ Executing
  /\ ~errClosed
  /\ errWritten < code.writes
  /\ pipeErr < PipeCap
  /\ errWritten' = errWritten + 1
  /\ pipeErr' = pipeErr + 1
  /\ UNCHANGED <<proc, returncode, pipeOut, outWritten, inside>>
  /\ UNCHANGED <<args, locals, counts, drain, super>>

\* a submission that uses its output streams closes its stdout while it goes
\* on running
ChildCloseOut ==
  /\ Executing
  /\ code.writes > 0
  /\ ~outClosed
  /\ outClosed' = TRUE
  /\ UNCHANGED <<proc, returncode, pipeOut, pipeErr, outWritten, errWritten>>
  /\ UNCHANGED <<errClosed, wrapper, limit_as, limit_cpu, cpu_seconds>>
  /\ UNCHANGED <<args, locals, counts, drain, super>>

\* and its stderr
ChildCloseErr ==
  /\ Executing
  /\ code.writes > 0
  /\ ~errClosed
  /\ errClosed' = TRUE
  /\ UNCHANGED <<proc, returncode, pipeOut, pipeErr, outWritten, errWritten>>
  /\ UNCHANGED <<outClosed, wrapper, limit_as, limit_cpu, cpu_seconds>>
  /\ UNCHANGED <<args, locals, counts, drain, super>>

\* the child consumes the stdin text the main thread is blocked writing
ChildReadStdin ==
  /\ Executing
  /\ pc = "stdin_blocked"
  /\ ~stdin_drained
  /\ stdin_drained' = TRUE
  /\ UNCHANGED <<stdin_open, stdin_failed, kill_called, now, alive_at_timeout, wait_expired>>
  /\ UNCHANGED <<args, locals, counts, child, drain>>

ChildExit ==
  /\ Executing
  /\ proc' = "exited"
  /\ \E rc \in {0, 1} : returncode' = rc
  /\ UNCHANGED <<pipeOut, pipeErr, outWritten, errWritten, inside>>
  /\ UNCHANGED <<args, locals, counts, drain, super>>

\* ------------------------------------------------- the drain threads (218-245)
\* a stream is over the ceiling as soon as it reaches it
OverCeilingWhenReached(size) == size >= MaxOutputUnits

\* stdout_size > max_output_bytes (lines 227 and 236)
OverCeiling(size) == size > MaxOutputUnits

\* one iteration of _reader(proc.stdout, stdout_chunks, True)
ReaderOut ==
  /\ InRun
  /\ t_out = "running"
  /\ \/ /\ pipeOut > 0
        /\ pipeOut' = pipeOut - 1
        /\ stdout_size' = stdout_size + 1
        /\ IF OverCeiling(stdout_size + 1)
           THEN /\ exceeded' = TRUE
                /\ proc' = Kill(proc)
                /\ returncode' = KillCode(proc, returncode)
                /\ kill_called' = TRUE
                /\ t_out' = "done"
                /\ UNCHANGED stdout_chunks
           ELSE /\ stdout_chunks' = stdout_chunks + 1
                /\ UNCHANGED <<exceeded, proc, returncode, kill_called, t_out>>
     \/ /\ pipeOut = 0
        /\ proc # "alive" \/ outClosed
        /\ t_out' = "done"
        /\ UNCHANGED <<pipeOut, stdout_size, stdout_chunks, exceeded, proc, returncode, kill_called>>
  /\ UNCHANGED <<pipeErr, outWritten, errWritten, inside, stderr_size, stderr_chunks, t_err>>
  /\ UNCHANGED <<stdin_open, stdin_drained, stdin_failed, now, alive_at_timeout, wait_expired>>
  /\ UNCHANGED <<args, locals, counts>>

\* one iteration of _reader(proc.stderr, stderr_chunks, False)
ReaderErr ==
  /\ InRun
  /\ t_err = "running"
  /\ \/ /\ pipeErr > 0
        /\ pipeErr' = pipeErr - 1
        /\ stderr_size' = stderr_size + 1
        /\ IF OverCeiling(stderr_size + 1)
           THEN /\ exceeded' = TRUE
                /\ proc' = Kill(proc)
                /\ returncode' = KillCode(proc, returncode)
                /\ kill_called' = TRUE
                /\ t_err' = "done"
                /\ UNCHANGED stderr_chunks
           ELSE /\ stderr_chunks' = stderr_chunks + 1
                /\ UNCHANGED <<exceeded, proc, returncode, kill_called, t_err>>
     \/ /\ pipeErr = 0
        /\ proc # "alive" \/ errClosed
        /\ t_err' = "done"
        /\ UNCHANGED <<pipeErr, stderr_size, stderr_chunks, exceeded, proc, returncode, kill_called>>
  /\ UNCHANGED <<pipeOut, outWritten, errWritten, inside, stdout_size, stdout_chunks, t_out>>
  /\ UNCHANGED <<stdin_open, stdin_drained, stdin_failed, now, alive_at_timeout, wait_expired>>
  /\ UNCHANGED <<args, locals, counts>>

\* --------------------------------- _run_with_output_limit: the main thread
MainFrame ==
  UNCHANGED <<warnings, i, passed, failed, errors, test_results, total_points,
              earned_points, timeout_used, tmp, report, raised, comparison>>

\* the handler of a failed write without its close
StdinClosedUnlessFailed(raised_in_write) == ~raised_in_write

\* line 256 after a write that succeeded, line 260 in the handler of a write
\* that raised: proc.stdin.close() is called in both
StdinClosed(raised_in_write) == TRUE

\* lines 252-262: write the stdin text and close the pipe. A text larger than
\* the free space of the pipe blocks the write until the child reads it; the
\* write (or the flush of the close) of a text to a child that is gone raises
\* BrokenPipeError, and the handler closes the pipe.
WriteStdin ==
  /\ pc = "stdin"
  /\ \E big \in (IF i = 0 THEN {FALSE} ELSE BOOLEAN) :
       IF big /\ proc = "alive"
       THEN /\ pc' = "stdin_blocked"
            /\ UNCHANGED <<stdin_open, stdin_failed>>
       ELSE /\ pc' = "wait"
            /\ \E broken \in (IF i > 0 /\ proc # "alive" THEN BOOLEAN ELSE {FALSE}) :
                  /\ stdin_failed' = broken
                  /\ stdin_open' = ~StdinClosed(broken)
  /\ UNCHANGED <<stdin_drained, kill_called, now, alive_at_timeout, wait_expired>>
  /\ UNCHANGED outcome
  /\ MainFrame
  /\ UNCHANGED <<args, counts, child, drain>>

StdinUnblock ==
  /\ pc = "stdin_blocked"
  /\ stdin_drained \/ proc # "alive"
  /\ pc' = "wait"
  /\ stdin_failed' = ~stdin_drained
  /\ stdin_open' = ~StdinClosed(~stdin_drained)
  /\ UNCHANGED <<stdin_drained, kill_called, now, alive_at_timeout, wait_expired>>
  /\ UNCHANGED outcome
  /\ MainFrame
  /\ UNCHANGED <<args, counts, child, drain>>

\* time passes while the main thread is in proc.wait
Tick ==
  /\ pc = "wait"
  /\ now < WaitMs(timeout_used)
  /\ now' = IF now < timeout_used THEN timeout_used ELSE WaitMs(timeout_used)
  /\ alive_at_timeout' = IF now < timeout_used THEN proc = "alive" ELSE alive_at_timeout
  /\ UNCHANGED <<stdin_open, stdin_drained, stdin_failed, kill_called, wait_expired>>
  /\ UNCHANGED <<args, locals, counts, child, drain>>

\* line 265: the child is gone, wait returns
WaitReturn ==
  /\ pc = "wait"
  /\ proc # "alive"
  /\ pc' = "join_out"
  /\ UNCHANGED outcome
  /\ MainFrame
  /\ UNCHANGED <<args, counts, child, drain, super>>

\* lines 265-266: the wait expired with the child still running and raised
\* TimeoutExpired
WaitTimeout ==
  /\ pc = "wait"
  /\ proc = "alive"
  /\ now >= WaitMs(timeout_used)
  /\ wait_expired' = TRUE
  /\ pc' = "expired"
  /\ UNCHANGED outcome
  /\ MainFrame
  /\ UNCHANGED <<stdin_open, stdin_drained, stdin_failed, kill_called, now, alive_at_timeout>>
  /\ UNCHANGED <<args, counts, child, drain>>

\* lines 267-271: kill the child, which may have exited in the meantime, and
\* re-raise TimeoutExpired
KillAndReraise ==
  /\ pc = "expired"
  /\ kill_called' = TRUE
  /\ proc' = Kill(proc)
  /\ returncode' = KillCode(proc, returncode)
  /\ outcome' = TimedOut("wait")
  /\ pc' = "classify"
  /\ MainFrame
  /\ UNCHANGED <<pipeOut, pipeErr, outWritten, errWritten, inside>>
  /\ UNCHANGED <<stdin_open, stdin_drained, stdin_failed, now, alive_at_timeout, wait_expired>>
  /\ UNCHANGED <<args, counts, drain>>

\* line 273: t_out.join(timeout=0.2) returns when the thread has ended or
\* when the grace period has expired
JoinOut ==
  /\ pc = "join_out"
  /\ pc' = "join_err"
  /\ UNCHANGED outcome
  /\ MainFrame
  /\ UNCHANGED <<args, counts, child, drain, super>>

\* line 274
JoinErr ==
  /\ pc = "join_err"
  /\ pc' = "build"
  /\ UNCHANGED outcome
  /\ MainFrame
  /\ UNCHANGED <<args, counts, child, drain, super>>

\* the limit reported only when the child did not end with return code 0
BuildOutcomeUnlessZero(ex, rc, out, printed, errchunks) ==
  IF ex /\ rc # 0
  THEN Completed(OutputLimitReturnCode, out, printed, "Output limit exceeded", 0)
  ELSE Completed(rc, out, printed, IF errchunks > 0 THEN "stderr" ELSE "", errchunks)

\* lines 279-282
BuildOutcome(ex, rc, out, printed, errchunks) ==
  IF ex
  THEN Completed(OutputLimitReturnCode, out, printed, "Output limit exceeded", 0)
  ELSE Completed(rc, out, printed, IF errchunks > 0 THEN "stderr" ELSE "", errchunks)

\* lines 276-282: join the chunks, build the outcome. The text of the
\* captured stdout is drawn here, where it becomes one string, when the
\* harness is going to compare it.
Build ==
  /\ pc = "build"
  /\ \E printed \in (IF stdout_chunks > 0 /\ ~exceeded /\ returncode = 0
                      THEN StdoutTexts ELSE {<<>>}) :
        outcome' = BuildOutcome(exceeded, returncode, stdout_chunks, printed, stderr_chunks)
  /\ pc' = "classify"
  /\ MainFrame
  /\ UNCHANGED <<args, counts, child, drain, super>>

\* ------------------------------------------- run_code_tests: classification
\* (res.stderr or res.stdout or "").strip()
FailureText(o) ==
  IF o.text # "" THEN o.text ELSE IF o.stdout > 0 THEN "stdout" ELSE ""

OrRuntimeError(msg) == IF msg # "" THEN msg ELSE "Runtime error"

\* the call of _run_with_output_limit is over: its pipes, its clock and its
\* orphaned drain threads are out of reach; what the child did is remembered
RetireRun ==
  /\ pipeOut' = 0
  /\ pipeErr' = 0
  /\ returncode' = 0
  /\ errWritten' = 0
  /\ outClosed' = FALSE
  /\ errClosed' = FALSE
  /\ wrapper' = "none"
  /\ limit_as' = "unset"
  /\ limit_cpu' = "unset"
  /\ cpu_seconds' = 0
  /\ stdout_size' = 0
  /\ stderr_size' = 0
  /\ stdout_chunks' = 0
  /\ stderr_chunks' = 0
  /\ t_out' = "idle"
  /\ t_err' = "idle"
  /\ stdin_open' = FALSE
  /\ stdin_drained' = FALSE
  /\ stdin_failed' = FALSE
  /\ now' = 0
  /\ timeout_used' = DefaultTimeoutMs
  /\ UNCHANGED <<proc, outWritten, exceeded, kill_called, alive_at_timeout, wait_expired>>

\* a non-zero return code reported as a failed comparison
StatusOfExitAsFailed(o, matches) ==
  IF o.kind = "timeout" THEN "timeout"
  ELSE IF o.kind = "exception" THEN "error"
  ELSE IF o.returncode # 0 THEN "failed"
  ELSE IF matches THEN "passed" ELSE "failed"

\* lines 489-520: the status of a case, from the outcome of its run and the
\* verdict of the comparator
StatusOf(o, matches) ==
  IF o.kind = "timeout" THEN "timeout"
  ELSE IF o.kind = "exception" THEN "error"
  ELSE IF o.returncode # 0 THEN "runtime_error"
  ELSE IF matches THEN "passed" ELSE "failed"

\* line 521
PassedDelta(status) == IF status = "passed" THEN 1 ELSE 0
\* the timeout handler without failed += 1
FailedDeltaNoTimeout(status) == IF status \in {"passed", "timeout"} THEN 0 ELSE 1
\* lines 490, 498, 507, 526
FailedDelta(status) == IF status = "passed" THEN 0 ELSE 1
\* earned_points += points outside the branch of a match
EarnedAlways(status, points) == points
\* line 522
EarnedDelta(status, points) == IF status = "passed" THEN points ELSE 0

\* enumerate(cases) without start=1
CaseNumberFromZero(position) == position - 1

\* enumerate(cases, start=1), line 439
CaseNumber(position) == position

\* the text appended to errors for a case that did not pass
ErrorText(status, o, v) ==
  CASE status = "timeout" -> "Timeout after"
    [] status = "error" -> o.text
    [] status = "runtime_error" -> OrRuntimeError(FailureText(o))
    [] OTHER -> v.message

\* ------------------------------------------------------- sizes of texts
\* text[:500]
StoredChars == 500
\* stream.read(4096); a captured chunk is counted at its full size
ChunkChars == 4096

Truncate(n) == IF n > StoredChars THEN StoredChars ELSE n
\* len(repr(text)), for a text without quotes or escapes
Repr(n) == n + 2

StdoutChars(o) == o.stdout * ChunkChars
StderrChars(o) == IF o.text = "Output limit exceeded" THEN 21 ELSE o.stderr * ChunkChars
\* (res.stderr or res.stdout or "").strip(), or "Runtime error"
FailureChars(o) ==
  LET n == IF o.text # "" THEN StderrChars(o) ELSE StdoutChars(o)
  IN IF n = 0 THEN 13 ELSE n
\* str(e): "Compilation failed: " and the stderr of javac, or the message of
\* an OSError
ExceptionChars(o) == IF o.text = "Compilation failed" THEN 20 + ChunkChars ELSE 60

\* the message of _compare_output for texts of e and a characters
MessageChars(msg, e, a) ==
  CASE msg = "Expected ..., got ..." -> 15 + Repr(e) + Repr(a)
    [] msg = "Output doesn't match pattern" -> 30 + Repr(a) + Repr(e)
    [] msg = "Expected output to contain ..." -> 33 + Repr(e) + Repr(a)
    [] msg = "Invalid regex pattern" -> 71
    [] OTHER -> 30

\* lines 454-458, 493-494, 501-502, 511-513, 523-524, 528-531. The field
\* chars holds the length of each free text stored in the result.
ResultOf(k, points, status, o, v, ms, e) ==
  CASE status = "timeout" ->
         [case_number |-> k, points |-> points, status |-> status,
          error |-> "Timeout after", ms |-> ms, chars |-> [error |-> 20]]
    [] status = "error" ->
         [case_number |-> k, points |-> points, status |-> status, error |-> o.text,
          chars |-> [error |-> Truncate(ExceptionChars(o))]]
    [] status = "runtime_error" ->
         [case_number |-> k, points |-> points, status |-> status,
          error |-> OrRuntimeError(FailureText(o)), stderr |-> o.text,
          chars |-> [error |-> Truncate(FailureChars(o)),
                     stderr |-> Truncate(StderrChars(o))]]
    [] status = "passed" ->
         [case_number |-> k, points |-> points, status |-> status, output |-> "actual",
          chars |-> [output |-> Truncate(StdoutChars(o))]]
    [] OTHER ->
         [case_number |-> k, points |-> points, status |-> status,
          error |-> v.message, expected |-> "expected", actual |-> "actual",
          chars |-> [error |-> MessageChars(v.message, Len(e), StdoutChars(o)),
                     expected |-> Truncate(Len(e)),
                     actual |-> Truncate(StdoutChars(o))]]

\* the expected outputs of the cases: every one of ExpectedTexts for a program
\* that prints something, nothing or "a" for a program that prints nothing
ExpectedFor(o) == IF o.stdout > 0 THEN ExpectedTexts ELSE {<<>>, <<"a">>}

\* lines 489-533: one result per case
Classify ==
  /\ pc = "classify"
  /\ cases # <<>>
  /\ LET points == PointsOf(cases[i])
         exit_zero == outcome.kind = "completed" /\ outcome.returncode = 0
     IN \E e \in (IF exit_zero THEN ExpectedFor(outcome) ELSE {<<>>}),
           m \in (IF exit_zero THEN ComparisonModes ELSE {"exact"}) :
          IF exit_zero /\ CompareRaises(e, m) # "none"
          THEN \* line 518 is outside every try: the exception of the
               \* comparator leaves run_code_tests
               /\ actual' = Strip(outcome.printed)
               /\ expected' = e
               /\ comparison_mode' = m
               /\ verdict' = NoVerdict
               /\ raised' = CompareRaises(e, m)
               /\ pc' = "raised"
               /\ tmp' = ExitScratch("raise")
               /\ UNCHANGED <<passed, failed, earned_points, errors, test_results>>
          ELSE
          LET a == Strip(outcome.printed)
              v == IF exit_zero THEN CompareOutput(a, e, m) ELSE NoVerdict
              status == StatusOf(outcome, v.matches)
          IN /\ actual' = a
             /\ expected' = e
             /\ comparison_mode' = m
             /\ verdict' = v
             /\ passed' = passed + PassedDelta(status)
             /\ failed' = failed + FailedDelta(status)
             /\ earned_points' = earned_points + EarnedDelta(status, points)
             /\ errors' = IF status = "passed" THEN errors
                          ELSE Append(errors, Err(CaseNumber(i), ErrorText(status, outcome, v)))
             /\ test_results' = Append(test_results,
                   ResultOf(CaseNumber(i), points, status, outcome, v, timeout_used, e))
             /\ pc' = "loop"
             /\ UNCHANGED <<tmp, raised>>
  /\ outcome' = NoOutcome
  /\ RetireRun
  /\ UNCHANGED <<warnings, i, total_points, report>>
  /\ UNCHANGED <<args, counts>>

\* the pseudo-case passes whatever the return code
SinglePassedAnyExit(o) == o.kind = "completed"

\* line 416
SinglePassed(o) == o.kind = "completed" /\ o.returncode = 0

\* lines 395-436: no test case was supplied, one run, one pseudo-case
ClassifySingle ==
  /\ pc = "classify"
  /\ cases = <<>>
  /\ report' =
       CASE outcome.kind = "timeout" ->
              Report(0, 1, 1, 0, <<Err(0, "Execution timeout")>>, warnings,
                     <<[status |-> "timeout", error |-> "Execution timeout",
                        chars |-> [error |-> 17]]>>)
         [] outcome.kind = "exception" ->
              Report(0, 1, 1, 0, <<Err(0, outcome.text)>>, warnings,
                     <<[status |-> "error", error |-> outcome.text,
                        chars |-> [error |-> Truncate(ExceptionChars(outcome))]]>>)
         [] SinglePassed(outcome) ->
              Report(1, 0, 1, 1, <<>>, warnings,
                     <<[status |-> "passed", output |-> "stdout",
                        chars |-> [output |-> StdoutChars(outcome)]]>>)
         [] OTHER ->
              Report(0, 1, 1, 0, <<Err(0, OrRuntimeError(FailureText(outcome)))>>, warnings,
                     <<[status |-> "failed", error |-> OrRuntimeError(FailureText(outcome)),
                        chars |-> [error |-> FailureChars(outcome)]]>>)
  /\ tmp' = ExitScratch("return")
  /\ pc' = "returned"
  /\ outcome' = NoOutcome
  /\ RetireRun
  /\ UNCHANGED <<warnings, i, passed, failed, errors, test_results, total_points,
                 earned_points, raised, comparison>>
  /\ UNCHANGED <<args, counts>>

\* ---------------------------------------------------------- specification
Next ==
  \/ Gate
  \/ CaseBegin
  \/ Return
  \/ RunPythonCode
  \/ RunJavascriptCode
  \/ RunJavaCode
  \/ UnsupportedLanguage
  \/ WrapperLimitAs
  \/ WrapperLimitCpu
  \/ ChildWriteOut
  \/ ChildWriteErr
  \/ ChildCloseOut
  \/ ChildCloseErr
  \/ ChildReadStdin
  \/ ChildExit
  \/ ReaderOut
  \/ ReaderErr
  \/ WriteStdin
  \/ StdinUnblock
  \/ Tick
  \/ WaitReturn
  \/ WaitTimeout
  \/ KillAndReraise
  \/ JoinOut
  \/ JoinErr
  \/ Build
  \/ Classify
  \/ ClassifySingle

Spec == Init /\ [][Next]_vars

\* ------------------------------------------------------------------ claims
ReportFields ==
  {"passed", "failed", "total_points", "earned_points", "errors", "warnings", "test_results"}

Returned == pc = "returned"

BlockedReport(r) ==
  /\ r.passed = 0
  /\ r.failed = 0
  /\ r.errors = <<Err(0, "Blocked by security policy")>>

NoProcessSpawned == popen_calls = 0 /\ javac_runs = 0

\* C1: every call of run_code_tests ends by returning a record with exactly
\* the seven report fields; no exception ever reaches the caller.
C1_AlwaysAReport ==
  /\ raised = "none"
  /\ Returned => DOMAIN report = ReportFields

\* C2 as stated: with security_mode = block and a code containing "import os",
\* whatever the language and the enable_quality_checks flag, no process is
\* ever spawned and the report is the blocked one.
C2_BlockedWhateverLanguage ==
  (security_mode = "block" /\ CountUnsafeImport(code) > 0) =>
     /\ NoProcessSpawned
     /\ Returned => BlockedReport(report)

\* C2 amended: the same for a Python submission evaluated with the quality
\* checks enabled.
C2_BlockedPython ==
  (security_mode = "block" /\ CountUnsafeImport(code) > 0
      /\ language = "python" /\ enable_quality_checks) =>
     /\ NoProcessSpawned
     /\ Returned => BlockedReport(report)

C2_Witness ==
  /\ Returned
  /\ security_mode = "block"
  /\ CountUnsafeImport(code) > 0
  /\ language = "python"
  /\ enable_quality_checks
  /\ cases # <<>>
  /\ BlockedReport(report)

\* the run of the last case has been classified, and it had a child
AfterRun == pc \in {"loop", "returned"} /\ proc # "none"

ErrorTexts(errs) == {errs[k].text : k \in 1..Len(errs)}

\* C3: in every interleaving, a child that wrote more than the output ceiling
\* to stdout has been killed, its case is counted in failed, the errors hold
\* "Output limit exceeded" and the child is not running once its run is over.
C3_OutputLimitEnforced ==
  (AfterRun /\ outWritten > MaxOutputUnits) =>
     /\ kill_called
     /\ proc # "alive"
     /\ IF cases = <<>>
        THEN /\ report.failed = 1
             /\ "Output limit exceeded" \in ErrorTexts(report.errors)
        ELSE /\ test_results[i].status # "passed"
             /\ failed >= 1
             /\ Err(i, "Output limit exceeded") \in {errors[k] : k \in 1..Len(errors)}

\* the last case has a result
CaseClassified == AfterRun /\ cases # <<>> /\ Len(test_results) = i /\ i >= 1

\* C4 as stated: a case whose program is still alive when the case's effective
\* timeout elapses has status timeout and its child has been force-killed.
C4_AliveAtEffectiveTimeout ==
  (CaseClassified /\ alive_at_timeout) =>
     /\ test_results[i].status = "timeout"
     /\ proc = "killed"

\* C4 amended: a case whose program is still alive when the Supervisor's wait
\* of max(0.1 s, effective timeout) expires has status timeout, never
\* runtime_error; kill has been called on its child, which no longer runs.
C4_AliveAtWaitExpiry ==
  (CaseClassified /\ wait_expired) =>
     /\ test_results[i].status = "timeout"
     /\ kill_called
     /\ proc # "alive"

C4_Witness ==
  /\ CaseClassified
  /\ wait_expired
  /\ test_results[i].status = "timeout"
  /\ test_results[i].ms = 50

\* C5: every Supervisor run terminates: from the spawn of the child the main
\* thread eventually returns an outcome or signals timeout, whatever the
\* child does and however large the stdin text is.
C5_RunTerminates == (pc = "stdin") ~> (pc = "classify")

\* C6: a failing javac is fatal for the whole submission: the compiler is run
\* once, no program is launched, the report holds one aggregate failure and
\* not one result per test case, and nothing is earned.
C6_CompileFailureIsFatal ==
  (language = "java" /\ javac = "fails") =>
     /\ javac_runs <= 1
     /\ popen_calls = 0
     /\ Returned => (Len(report.test_results) <= 1 /\ report.earned_points = 0)

\* the points of a supplied case, 1 when the case names none
ClaimedPoints(c) == IF c.points.kind = "absent" THEN 1 ELSE c.points.val

RECURSIVE SumFirst(_)
SumFirst(n) == IF n = 0 THEN 0 ELSE SumFirst(n - 1) + ClaimedPoints(cases[n])

\* C7 as stated: on every return path total_points is the sum of the points
\* of the supplied cases.
C7_TotalOnEveryPath == Returned => report.total_points = SumFirst(Len(cases))

GateBlocks ==
  /\ security_mode = "block"
  /\ language = "python"
  /\ enable_quality_checks
  /\ CountUnsafeImport(code) + CountDynamicExec(code) > 0

\* C7 amended: in a report of an evaluation that was not blocked and was given
\* at least one case, total_points is the sum of the points of the supplied
\* cases (1 for a case that names none), whatever the outcomes; while the
\* loop runs it is the sum over the cases begun so far. The blocked report
\* has total_points 0; the report of a run without cases has total_points 1,
\* or 0 when the language is not supported.
C7_TotalOfLoop ==
  /\ (Returned /\ cases # <<>> /\ ~GateBlocks) => report.total_points = SumFirst(Len(cases))
  /\ (cases # <<>> /\ pc \notin {"start", "raised", "returned"}) => total_points = SumFirst(i)
  /\ (Returned /\ GateBlocks) => report.total_points = 0
  /\ (Returned /\ cases = <<>> /\ ~GateBlocks) =>
        report.total_points = IF language \in {"python", "javascript", "java"} THEN 1 ELSE 0

C7_Witness ==
  /\ Returned
  /\ Len(cases) = 2
  /\ cases[1].points = Absent
  /\ cases[2].points = IntVal(2)
  /\ Len(report.test_results) = 2
  /\ report.test_results[1].status = "passed"
  /\ report.test_results[2].status # "passed"
  /\ report.total_points = 3

\* the points of a result; the pseudo-case of a run without cases weighs 1
ResultPoints(r) == IF "points" \in DOMAIN r THEN r.points ELSE 1

RECURSIVE EarnedSum(_)
EarnedSum(results) ==
  IF results = <<>> THEN 0
  ELSE EarnedSum(SubSeq(results, 1, Len(results) - 1))
       + (IF results[Len(results)].status = "passed"
          THEN ResultPoints(results[Len(results)]) ELSE 0)

AllPointsNonNegative == \A k \in 1..Len(cases) : ClaimedPoints(cases[k]) >= 0

\* C8: earned_points is the sum of the points of exactly the passed cases, in
\* the report and after each case of the loop, and it is at most total_points
\* when no case has negative points.
C8_EarnedIsSumOfPassed ==
  /\ earned_points = EarnedSum(test_results)
  /\ AllPointsNonNegative => earned_points <= total_points
  /\ Returned =>
       /\ report.earned_points = EarnedSum(report.test_results)
       /\ AllPointsNonNegative => report.earned_points <= report.total_points

C8_Witness ==
  /\ Returned
  /\ Len(report.test_results) = 2
  /\ report.test_results[1].status = "runtime_error"
  /\ report.test_results[1].points = 2
  /\ report.test_results[2].status = "passed"
  /\ report.test_results[2].points = 1
  /\ report.earned_points = 1
  /\ report.total_points = 3

CountPassed(results) == Cardinality({k \in 1..Len(results) : results[k].status = "passed"})

\* C9: when cases were supplied, passed + failed = len(test_results) in the
\* report and after each case of the loop; passed counts the results with
\* status passed and failed the others.
C9_CountsMatchResults ==
  cases # <<>> =>
     /\ passed + failed = Len(test_results)
     /\ passed = CountPassed(test_results)
     /\ Returned =>
          /\ report.passed + report.failed = Len(report.test_results)
          /\ report.passed = CountPassed(report.test_results)

C9_Witness ==
  /\ Returned
  /\ Len(report.test_results) = 2
  /\ report.test_results[1].status = "timeout"
  /\ report.test_results[2].status = "passed"
  /\ report.passed = 1
  /\ report.failed = 1

\* C10: the k-th result has case_number k and describes the k-th supplied
\* case, and the result of a case is appended before the next case starts:
\* while case i executes, exactly i - 1 results exist.
C10_ResultsInInputOrder ==
  /\ \A k \in 1..Len(test_results) :
        /\ test_results[k].case_number = k
        /\ test_results[k].points = ClaimedPoints(cases[k])
  /\ (cases # <<>> /\ (pc \in {"launch", "classify"} \/ InRun)) => Len(test_results) = i - 1
  /\ (cases # <<>> /\ pc = "loop") => Len(test_results) = i
  /\ (Returned /\ cases # <<>> /\ ~GateBlocks) => report.test_results = test_results

C10_Witness ==
  /\ InRun
  /\ i = 2
  /\ Len(test_results) = 1
  /\ test_results[1].case_number = 1
  /\ cases[1].points # cases[2].points

TerminalStatuses == {"passed", "failed", "timeout", "runtime_error", "error"}

\* run_code_tests is over, by a return or by an exception
Ended == pc \in {"returned", "raised"}

C11_OneResultPerCase ==
  (Ended /\ cases # <<>> /\ ~GateBlocks) =>
     /\ Len(test_results) = Len(cases)
     /\ \A k \in 1..Len(test_results) : test_results[k].status \in TerminalStatuses

C11_ResultIsFinal ==
  \A k \in 1..Len(test_results) :
     /\ Len(test_results') >= k
     /\ test_results'[k] = test_results[k]

\* C11: when the evaluation is not blocked and has n >= 1 cases, every case
\* gets exactly one result with a terminal status, which never changes
\* afterwards, and whatever happens in case k the evaluation ends with n
\* results.
C11_EveryCaseRuns == [][C11_ResultIsFinal]_vars /\ []C11_OneResultPerCase

\* C12 as stated: while the child is alive, from its spawn on, each of its two
\* streams has a live drain loop.
C12_BothLoopsLive ==
  (InRun /\ proc = "alive") => (t_out = "running" /\ t_err = "running")

C12_OpenStreamsDrained ==
  (InRun /\ proc = "alive") =>
     /\ t_out = "running" \/ outClosed
     /\ t_err = "running" \/ errClosed

\* C12 amended: while the child is alive, each stream the child has not closed
\* has a live drain loop, and a child that filled the pipe of one stream is not
\* left blocked on it: the pipe is drained or the child is killed.
C12_DrainedConcurrently ==
  /\ []C12_OpenStreamsDrained
  /\ (proc = "alive" /\ pipeErr = PipeCap) ~> (pipeErr < PipeCap \/ proc # "alive")
  /\ (proc = "alive" /\ pipeOut = PipeCap) ~> (pipeOut < PipeCap \/ proc # "alive")

C12_Witness ==
  /\ pc = "wait"
  /\ proc = "alive"
  /\ pipeErr = PipeCap
  /\ outWritten = 0
  /\ ~outClosed
  /\ t_out = "running"
  /\ t_err = "running"

\* a stream's running byte count went over the ceiling
Overran == stdout_size > MaxOutputUnits \/ stderr_size > MaxOutputUnits

\* C13: an outcome returned by the Supervisor has return code 137 and stderr
\* "Output limit exceeded" when the byte count of a stream went over the
\* ceiling, whatever the child's exit code and whichever stream it was, with
\* the stdout captured below the ceiling; otherwise it has the child's exit
\* code and the captured chunks.
C13_OutcomeOfSupervisor ==
  (pc = "classify" /\ outcome.kind = "completed") =>
     IF Overran
     THEN /\ outcome.returncode = OutputLimitReturnCode
          /\ outcome.text = "Output limit exceeded"
          /\ outcome.stdout = stdout_chunks
          /\ outcome.stdout <= MaxOutputUnits
     ELSE /\ outcome.returncode = returncode
          /\ outcome.stdout = stdout_chunks
          /\ outcome.stderr = stderr_chunks
          /\ outcome.text # "Output limit exceeded"

C13_Witness ==
  /\ pc = "classify"
  /\ outcome.kind = "completed"
  /\ stderr_size > MaxOutputUnits
  /\ stdout_size <= MaxOutputUnits
  /\ stdout_chunks > 0
  /\ proc = "exited"
  /\ returncode = 0
  /\ outcome.returncode = OutputLimitReturnCode

\* C14: in every result of every returned report, each stored free text
\* (output, expected, actual, error, stderr) has at most 500 characters.
C14_StoredTextsBounded ==
  Returned =>
     \A k \in 1..Len(report.test_results) :
        \A f \in DOMAIN report.test_results[k].chars :
           report.test_results[k].chars[f] <= StoredChars

\* the status the claim gives to an outcome
ClaimedStatus(o, e, m) ==
  IF o.kind = "timeout" THEN "timeout"
  ELSE IF o.kind = "exception" THEN "error"
  ELSE IF o.returncode # 0 THEN "runtime_error"
  ELSE IF CompareOutput(Strip(o.printed), e, m).matches THEN "passed" ELSE "failed"

\* the last result after the step that classifies the case
C15_ByOutcomeKind ==
  LET r == test_results'[Len(test_results')]
  IN /\ r.status = ClaimedStatus(outcome, expected', comparison_mode')
     /\ r.status = "runtime_error" =>
          /\ r.error = (IF outcome.text # "" THEN outcome.text
                        ELSE IF outcome.stdout > 0 THEN "stdout" ELSE "Runtime error")
          /\ r.stderr = outcome.text
          /\ "output" \notin DOMAIN r
     /\ passed' + failed' = passed + failed + 1
     /\ passed' = passed + (IF r.status = "passed" THEN 1 ELSE 0)

ExitZero(o) == o.kind = "completed" /\ o.returncode = 0

SupportedLanguage == language \in {"python", "javascript", "java"}

C16_SingleReport ==
  /\ Len(report.test_results) = 1
  /\ popen_calls <= 1
  /\ report.test_results[1].status \in {"passed", "failed"} => popen_calls = 1
  /\ \/ report.passed = 1 /\ report.failed = 0
     \/ report.passed = 0 /\ report.failed = 1 /\ report.earned_points = 0

C16_SingleVerdict ==
  (pc = "classify" /\ cases = <<>>) =>
     /\ (report'.passed = 1 /\ report'.failed = 0) <=> ExitZero(outcome)
     /\ ~ExitZero(outcome) =>
          (report'.passed = 0 /\ report'.failed = 1 /\ report'.earned_points = 0)

\* C16 as stated: with no test case and no block, the program is run once
\* with empty stdin and the report describes one pseudo-case, passed exactly
\* when the return code is 0 and failed with nothing earned otherwise.
C16_OnePseudoCase ==
  /\ []((Returned /\ cases = <<>> /\ ~GateBlocks) => C16_SingleReport)
  /\ [](cases = <<>> => pc # "stdin_blocked")
  /\ [][C16_SingleVerdict]_vars

\* C16 amended: the same for the three supported languages; for any other
\* language nothing is run and the report has no result and no failure.
C16_OnePseudoCaseSupported ==
  /\ []((Returned /\ cases = <<>> /\ ~GateBlocks /\ SupportedLanguage) => C16_SingleReport)
  /\ []((Returned /\ cases = <<>> /\ ~GateBlocks /\ ~SupportedLanguage) =>
          /\ report.test_results = <<>>
          /\ report.passed = 0
          /\ report.failed = 0
          /\ report.earned_points = 0
          /\ popen_calls = 0)
  /\ [](cases = <<>> => pc # "stdin_blocked")
  /\ [][C16_SingleVerdict]_vars

C16_Witness ==
  /\ Returned
  /\ cases = <<>>
  /\ language = "python"
  /\ popen_calls = 1
  /\ report.passed = 0
  /\ report.failed = 1
  /\ report.errors = <<Err(0, "Output limit exceeded")>>

\* C17: the scratch directory does not exist once run_code_tests has returned
\* or raised, whatever the exit path, it exists only while the evaluation
\* runs, and a blocked evaluation never creates one.
C17_ScratchRemoved ==
  /\ Ended => tmp # "exists"
  /\ (Ended /\ ~GateBlocks) => tmp = "deleted"
  /\ GateBlocks => tmp = "none"
  /\ tmp = "exists" => pc \notin {"start", "returned", "raised"}

C17_Witness ==
  /\ pc = "raised"
  /\ tmp = "deleted"
  /\ Len(test_results) = 1
  /\ test_results[1].status = "timeout"

\* the submission has done something
SubmissionActed ==
  \/ outWritten > 0
  \/ errWritten > 0
  \/ outClosed
  \/ errClosed
  \/ stdin_drained
  \/ proc = "exited"

\* C18: in the Python child both attempts to set a limit are made before the
\* submission does anything, and a failed attempt does not end the child: the
\* submission is executed whatever the attempts gave.
C18_LimitsBeforeSubmission ==
  (language = "python" /\ (InRun \/ pc = "classify") /\ proc # "none") =>
     /\ SubmissionActed => (wrapper = "exec" /\ limit_as # "unset" /\ limit_cpu # "unset")
     /\ wrapper = "exec" => (limit_as # "unset" /\ limit_cpu # "unset")
     /\ wrapper = "limit_cpu" => (limit_as # "unset" /\ limit_cpu = "unset")
     /\ wrapper = "limit_as" => (limit_as = "unset" /\ limit_cpu = "unset")
     /\ proc = "exited" => wrapper = "exec"

C18_Witness ==
  /\ pc = "classify"
  /\ language = "python"
  /\ limit_as = "failed"
  /\ limit_cpu = "failed"
  /\ outWritten > 0
  /\ proc = "exited"
  /\ ExitZero(outcome)

KnownModes == {"exact", "normalized", "regex", "contains"}

\* C19 as stated: compare(x, x, mode) matches in each of the four modes,
\* except in mode regex when x is not a valid pattern.
C19_Reflexive ==
  (/\ pc = "compared"
   /\ actual = expected
   /\ comparison_mode \in KnownModes
   /\ comparison_mode = "regex" => ValidPattern(expected)) => verdict.matches

\* x holds no regex metacharacter but "."
PlainPattern(x) == \A k \in 1..Len(x) : x[k] \notin {"*", "("}

\* C19 amended: compare(x, x, mode) matches in modes exact, normalized and
\* contains, and in mode regex when x holds no metacharacter but ".".
C19_ReflexiveOnPlainText ==
  (/\ pc = "compared"
   /\ actual = expected
   /\ comparison_mode \in KnownModes
   /\ comparison_mode = "regex" => PlainPattern(expected)) =>
     /\ verdict.matches
     /\ verdict.message = NoneMsg

C19_Witness ==
  /\ pc = "compared"
  /\ comparison_mode = "regex"
  /\ actual = <<".", "a", " ">>
  /\ expected = actual
  /\ verdict.matches

\* C20: normalizing twice equals normalizing once, and the normalized
\* comparison of two texts has the verdict of the normalized comparison of
\* their normalized forms.
C20_NormalizeIdempotent ==
  /\ \A nw \in BOOLEAN :
        /\ NormalizeOutput(NormalizeOutput(actual, nw), nw) = NormalizeOutput(actual, nw)
        /\ NormalizeOutput(NormalizeOutput(expected, nw), nw) = NormalizeOutput(expected, nw)
  /\ CompareOutput(NormalizeOutput(actual, TRUE), NormalizeOutput(expected, TRUE), "normalized")
       = CompareOutput(actual, expected, "normalized")
  /\ (pc = "compared" /\ comparison_mode = "normalized") =>
        verdict = CompareOutput(NormalizeOutput(actual, TRUE),
                                NormalizeOutput(expected, TRUE), "normalized")

C20_Witness ==
  /\ pc = "compared"
  /\ comparison_mode = "normalized"
  /\ actual = <<"a", " ", " ", "a">>
  /\ expected = <<"a", " ", "a">>
  /\ verdict.matches

\* ---------------------------------------------------------------- C21
\* the parts of a Java identifier: words and "$"
IsIdentifierPart(x) == IsWord(x) \/ x = "$"

RECURSIVE IdentifierRun(_, _)
IdentifierRun(s, k) ==
  IF k <= Len(s) /\ IsIdentifierPart(s[k]) THEN <<s[k]>> \o IdentifierRun(s, k + 1) ELSE <<>>

\* position p is inside a // comment
InComment(s, p) ==
  \E k \in 1..(p - 1) : s[k] = "//" /\ \A j \in k..p : s[j] # "\n"

\* the identifier X of a declaration `public class X` that begins at position
\* p, <<>> if no such declaration begins there
DeclaredAt(s, p) ==
  IF s[p] # "public" \/ InComment(s, p) \/ (p > 1 /\ IsIdentifierPart(s[p - 1])) THEN <<>>
  ELSE LET c == SkipSpace(s, p + 1)
       IN IF c = p + 1 \/ c > Len(s) \/ s[c] # "class" THEN <<>>
          ELSE LET n == SkipSpace(s, c + 1)
               IN IF n = c + 1 THEN <<>> ELSE IdentifierRun(s, n)

RECURSIVE FirstDeclared(_, _)
FirstDeclared(s, p) ==
  IF p > Len(s) THEN <<"Main">>
  ELSE IF DeclaredAt(s, p) # <<>> THEN DeclaredAt(s, p) ELSE FirstDeclared(s, p + 1)

\* the Java runner has chosen its class name
JavaPrepared == language = "java" /\ java_file # <<>>

\* the file written and the class launched bear the class name
SameNameThroughout ==
  /\ java_file = class_name \o <<".java">>
  /\ cmd # NoCmd => cmd = Cmd("java", <<"-cp", "scratch">>, class_name)

PlainSource(s) == \A k \in 1..Len(s) : s[k] \notin {"//", "$"}

C22_PreparedOnce == cases # <<>> => (prepared <= 1 /\ javac_runs <= 1)

\* ---------------------------------------------------------------- C23
\* C23: no more than one OS process is spawned per test case, the compiler
\* included: when k cases have begun the evaluation has spawned at most k
\* processes, and between two runs no child is alive.
C23_OneProcessPerCase ==
  cases # <<>> =>
     /\ javac_runs + popen_calls <= i
     /\ pc \in {"loop", "launch", "classify", "returned", "raised"} => proc # "alive"

\* ---------------------------------------------------------------- C24
\* the supervisor kills only when a stream is over the ceiling or the wait
\* has expired, and then it does kill
C24_KillOnlyWhenDue ==
  /\ kill_called => (exceeded \/ wait_expired)
  /\ exceeded => kill_called
  /\ (wait_expired /\ pc # "expired") => kill_called

\* a step in which proc.kill() is called: by the drain loop of a stream that
\* went over the ceiling, or by the main thread after the wait expired
KillStep ==
  \/ pc = "expired" /\ pc' = "classify"
  \/ stdout_size' = stdout_size + 1 /\ stdout_size' > MaxOutputUnits
  \/ stderr_size' = stderr_size + 1 /\ stderr_size' > MaxOutputUnits

\* a kill of a child that has ended changes neither its state nor its
\* return code, and the main thread still signals the timeout
C24_KillOfEndedChild ==
  /\ (KillStep /\ proc # "alive") => (proc' = proc /\ returncode' = returncode)
  /\ (pc = "expired" /\ pc' = "classify") => outcome' = TimedOut("wait")

\* C24: the child is killed only when the wait has expired or a stream is
\* over the ceiling, and in both cases it is killed; a kill of a child that
\* has exited or was killed already raises nothing and changes nothing.
C24_KillSafe == []C24_KillOnlyWhenDue /\ [][C24_KillOfEndedChild]_vars

\* the main thread killed, after the wait expired, a child that had exited
\* in the meantime
C24_Witness ==
  /\ pc = "classify"
  /\ wait_expired
  /\ kill_called
  /\ proc = "exited"
  /\ outcome = TimedOut("wait")

\* ---------------------------------------------------------------- C25
\* C25: whatever the stdin text and whether its write succeeded or failed,
\* the stdin pipe of the child is closed when the supervisor waits for the
\* exit, and a failed write raises nothing: no run of the supervisor ends in
\* an exception other than the timeout.
C25_StdinClosedBeforeWait ==
  /\ pc \in {"wait", "expired", "join_out", "join_err", "build"} => ~stdin_open
  /\ stdin_failed => pc \in {"wait", "expired", "join_out", "join_err", "build", "classify"}
  /\ (pc = "classify" /\ outcome.kind = "exception") => (proc = "none" /\ ~stdin_failed)

\* the write failed on a child that had exited, and the supervisor waits
C25_Witness ==
  /\ pc = "wait"
  /\ stdin_failed
  /\ ~stdin_open
  /\ proc = "exited"

\* ---------------------------------------------------------------- C26
\* the exceptions that leave _compare_output
ComparatorExceptions == {"OverflowError"}

\* C26: the comparator never raises: no evaluation is ended by an exception
\* of the comparison.
C26_CompareNeverRaises == raised \notin ComparatorExceptions

\* ---------------------------------------------------------------- C27
\* C27: when the outcome of a run is built with the exceeded flag unset, both
\* drain loops have ended and the captured chunks are everything the child
\* wrote to each stream.
C27_WholeOutputUnlessExceeded ==
  (pc = "build" /\ ~exceeded) =>
     /\ t_out = "done"
     /\ t_err = "done"
     /\ stdout_chunks = outWritten
     /\ stderr_chunks = errWritten

\* ---------------------------------------------------------------- C28
\* C28: during a run the chunks captured for a stream never exceed the
\* ceiling: a stream that stays within the ceiling is stored in full and does
\* not set the exceeded flag, the chunk that crosses the ceiling is not
\* stored.
C28_CapturedWithinCeiling ==
  InRun =>
     /\ stdout_chunks <= MaxOutputUnits
     /\ stderr_chunks <= MaxOutputUnits
     /\ stdout_size <= MaxOutputUnits => stdout_chunks = stdout_size
     /\ stderr_size <= MaxOutputUnits => stderr_chunks = stderr_size
     /\ stdout_size > MaxOutputUnits => stdout_chunks < stdout_size
     /\ stderr_size > MaxOutputUnits => stderr_chunks < stderr_size
     /\ exceeded <=> (stdout_size > MaxOutputUnits \/ stderr_size > MaxOutputUnits)

\* a stdout of exactly the ceiling, stored in full by a drain loop that has
\* ended, the flag unset
C28_Witness ==
  /\ pc = "build"
  /\ t_out = "done"
  /\ outWritten = MaxOutputUnits
  /\ stdout_size = MaxOutputUnits
  /\ stdout_chunks = MaxOutputUnits
  /\ ~exceeded

\* ---------------------------------------------------------------- C29
\* C29: a result gets status timeout only when the wait of the supervisor on
\* the child of that case expired; no other time limit, the 30 seconds of the
\* compiler among them, is reported as a timeout of the case.
C29_TimeoutOnlyFromWait ==
  [][(Len(test_results') > Len(test_results)
        /\ test_results'[Len(test_results')].status = "timeout") => wait_expired]_vars

\* ---------------------------------------------------------------- C30
\* C30: for every timeout of MinTimeoutMs..MaxTimeoutMs the CPU-time limit
\* the wrapper sets is not smaller than the wait of the supervisor.
C30_CpuLimitNotBelowWait ==
  limit_cpu = "set" => cpu_seconds * 1000 >= WaitMs(timeout_used)

\* ------------------------------------------------------ fair specification
\* The main thread, the clock and the drain threads keep running; nothing
\* makes the child write, read its stdin or exit.
MainThread ==
  \/ Gate
  \/ CaseBegin
  \/ Return
  \/ RunPythonCode
  \/ RunJavascriptCode
  \/ RunJavaCode
  \/ UnsupportedLanguage
  \/ WriteStdin
  \/ StdinUnblock
  \/ WaitReturn
  \/ WaitTimeout
  \/ KillAndReraise
  \/ JoinOut
  \/ JoinErr
  \/ Build
  \/ Classify
  \/ ClassifySingle

FairSpec ==
  /\ Init
  /\ [][Next]_vars
  /\ WF_vars(MainThread)
  /\ WF_vars(Tick)
  /\ WF_vars(ReaderOut)
  /\ WF_vars(ReaderErr)

\* ------------------------------------------- the supervisor on its own
\* a Python program that writes to both streams, run for one case
DrainInit ==
  /\ Arguments(DrainCall)
  /\ pc = "start"
  /\ Fresh
  /\ NothingCompared

DrainNext ==
  \/ Gate
  \/ CaseBegin
  \/ Return
  \/ RunPythonCode
  \/ WrapperLimitAs
  \/ WrapperLimitCpu
  \/ ChildWriteOut
  \/ ChildWriteErr
  \/ ChildCloseOut
  \/ ChildCloseErr
  \/ ChildReadStdin
  \/ ChildExit
  \/ ReaderOut
  \/ ReaderErr
  \/ WriteStdin
  \/ StdinUnblock
  \/ Tick
  \/ WaitReturn
  \/ WaitTimeout
  \/ KillAndReraise
  \/ JoinOut
  \/ JoinErr
  \/ Build
  \/ Classify

DrainSpec ==
  /\ DrainInit
  /\ [][DrainNext]_vars
  /\ WF_vars(MainThread)
  /\ WF_vars(Tick)
  /\ WF_vars(ReaderOut)
  /\ WF_vars(ReaderErr)

\* --------------------------------------------- one runner on its own
\* run_code_tests without test cases at line 396, about to call a runner with
\* the timeout t
Launching(t) ==
  /\ pc = "launch"
  /\ warnings = <<>>
  /\ i = 0
  /\ passed = 0
  /\ failed = 0
  /\ errors = <<>>
  /\ test_results = <<>>
  /\ total_points = 0
  /\ earned_points = 0
  /\ timeout_used = t
  /\ tmp = "exists"
  /\ report = NoReport
  /\ raised = "none"
  /\ outcome = NoOutcome
  /\ NothingCompared
  /\ NoProcess

\* one call of _run_java_code, for every source and every javac
JavaInit ==
  /\ \E src \in JavaSources, j \in JavacBehaviours :
        Arguments(Call("java", JavaProgram(src), TRUE, "warn", <<>>, j, "ok"))
  /\ Launching(DefaultTimeoutMs)

JavaNext == RunJavaCode

JavaSpec == JavaInit /\ [][JavaNext]_vars

\* ----------------------------------------- the limits of a Python child
\* one launch of the Python wrapper, for every timeout_ms the task accepts
LimitInit ==
  /\ \E r \in ResourceBehaviours :
        Arguments(Call("python", Program("print('ok')", 0), TRUE, "warn", <<>>, "ok", r))
  /\ \E t \in MinTimeoutMs..MaxTimeoutMs : Launching(t)

LimitNext ==
  \/ RunPythonCode
  \/ WrapperLimitAs
  \/ WrapperLimitCpu

LimitSpec == LimitInit /\ [][LimitNext]_vars
====
